---- MODULE Spec2Model ----
(***************************************************************************)
(* Model of app.py: a Flask-SocketIO server with three event handlers      *)
(* (connect, disconnect, update_params) and the WaveformGenerator they     *)
(* call.                                                                   *)
(*                                                                         *)
(* Numbers.  Frequency and amplitude are Python floats; here they are      *)
(* fixed-point integers counting tenths (2.0 Hz is 20, 0.7 is 7), with     *)
(* three reserved values for the non-finite floats.  A sample is an        *)
(* integer counting 1/(10 * Period) where Period = 10 * sampleCount, so    *)
(* amplitude * 1.0 is amplitude * Period.  Sawtooth and square samples are *)
(* exact on this grid; sine samples are rounded to it.  The one place      *)
(* where double rounding decides more than the last digits, the sign of    *)
(* sin at a mathematical zero crossing, is the variable ulp.               *)
(*                                                                         *)
(* Dispatch.  A handler runs to completion as one step, and the events of  *)
(* one connection are handled in the order the transport received them.    *)
(***************************************************************************)
EXTENDS Integers, Sequences, FiniteSets, TLC

VARIABLES
    state,    \* state[c]: "idle" (never connected), "open", "closed"
    inbox,    \* inbox[c]: update_params events of c received by the transport, not yet handled
    outbox,   \* outbox[c]: the waveform_data messages delivered to c, in order
    stdout,   \* stdout[c]: the lines the handlers printed about request.sid = c
    done,     \* done[c]: history of the update_params events of c that were handled
    sent,     \* sent[c]: how many update_params events client c has sent
    ulp       \* which way 2*pi*f*t rounds at a zero crossing of sin

vars == <<state, inbox, outbox, stdout, done, sent, ulp>>

Conns == {"A", "B"}

\* The most update_params events the clients send in one behaviour, all connections together.
MaxSent == 2

(***************************************************************************)
(* Python floats                                                           *)
(***************************************************************************)
NaN == 2000000
PosInf == 1000000
NegInf == -1000000

\* x < y on floats: every comparison with nan is false.
PyLt(x, y) == x # NaN /\ y # NaN /\ x < y

\* min(x, y): the first argument unless the second is smaller.
PyMin(x, y) == IF PyLt(y, x) THEN y ELSE x

\* max(x, y): the first argument unless the second is larger.
PyMax(x, y) == IF PyLt(x, y) THEN y ELSE x

(***************************************************************************)
(* JSON values of the payload                                              *)
(***************************************************************************)
Absent == [kind |-> "absent", s |-> "", n |-> 0]
Null == [kind |-> "null", s |-> "", n |-> 0]
Num(n) == [kind |-> "num", s |-> "", n |-> n]
Str(s) == [kind |-> "str", s |-> s, n |-> 0]

\* float(s) of a string.
StrToFloat(s) ==
    CASE s = "2.0" -> [ok |-> TRUE, v |-> 20]
      [] s = "nan" -> [ok |-> TRUE, v |-> NaN]
      [] s = "inf" -> [ok |-> TRUE, v |-> PosInf]
      [] s = "-inf" -> [ok |-> TRUE, v |-> NegInf]
      [] OTHER -> [ok |-> FALSE, v |-> 0]

\* A mutant of Float: anything that is not a number becomes 0.0.
FloatLenient(x) ==
    CASE x.kind = "num" -> [ok |-> TRUE, v |-> x.n]
      [] x.kind = "str" /\ StrToFloat(x.s).ok -> StrToFloat(x.s)
      [] OTHER -> [ok |-> TRUE, v |-> 0]

\* float(x): ok = FALSE when it raises (ValueError for a string that is no
\* number, TypeError for None).
Float(x) ==
    CASE x.kind = "num" -> [ok |-> TRUE, v |-> x.n]
      [] x.kind = "str" -> StrToFloat(x.s)
      [] OTHER -> [ok |-> FALSE, v |-> 0]

\* A mutant of Get: the default even when the key is present.
GetDefaultOnly(params, key, default) == default

\* params.get(key, default)
Get(params, key, default) ==
    IF params[key].kind = "absent" THEN default ELSE params[key]

(***************************************************************************)
(* WaveformGenerator                                                       *)
(***************************************************************************)
DefaultSampleRate == 1000
DefaultDuration == 1

\* A mutant of linspace: endpoint=True semantics, one tick too many.
linspace_endpoint(sample_rate, duration) ==
    [i \in 1..(sample_rate * duration + 1) |-> i - 1]

\* np.linspace(0, duration, int(sample_rate * duration), endpoint=False),
\* each time point counted in ticks of 1 / sample_rate seconds.
linspace(sample_rate, duration) ==
    [i \in 1..(sample_rate * duration) |-> i - 1]

\* WaveformGenerator.__init__
WaveformGenerator(sample_rate, duration) ==
    [sample_rate |-> sample_rate,
     duration    |-> duration,
     time_points |-> linspace(sample_rate, duration)]

\* One cycle, and the value 1.0 of a sample factor, on the fixed-point grid.
Period(gen) == 10 * gen.sample_rate

\* frequency * t for time point t, in 1/Period of a cycle.
Cycles(gen, frequency, t) == frequency * t

\* np.sin(2 * np.pi * frequency * t): fix is the value times Period (Bhaskara's
\* rational approximation, exact at the zero crossings and the peaks); res is
\* the sign of what double rounding leaves where fix is 0: nothing at
\* argument 0.0, the half cycle before or after the crossing elsewhere.
Sin(gen, frequency, t) ==
    LET P == Period(gen)
        H == P \div 2
        r == Cycles(gen, frequency, t) % P
        h == r % H
        q == h * (H - h)
        mag == (16 * q) \div ((5 * H * H - 4 * q) \div P)
        before == IF r = 0 THEN -1 ELSE 1
    IN  [fix |-> IF r < H THEN mag ELSE 0 - mag,
         res |-> IF Cycles(gen, frequency, t) = 0 THEN 0
                 ELSE IF ulp = "below" THEN before ELSE 0 - before]

\* A mutant of np_sign: a sign that is never 0.
np_sign_nonzero(x) == IF x.fix > 0 THEN 1 ELSE IF x.fix < 0 THEN -1 ELSE 1

\* np.sign of a computed sine: -1, 0 or 1.
np_sign(x) == IF x.fix > 0 THEN 1 ELSE IF x.fix < 0 THEN -1 ELSE x.res

\* np.fmod(t * frequency, 1.0), in 1/Period.
np_fmod(gen, frequency, t) == Cycles(gen, frequency, t) % Period(gen)

\* A mutant of Sawtooth: the "- 1" forgotten.
SawtoothNoOffset(gen, frequency, amplitude, t) ==
    amplitude * (2 * np_fmod(gen, frequency, t))

\* amplitude * (2 * fmod(t * frequency, 1.0) - 1)
Sawtooth(gen, frequency, amplitude, t) ==
    amplitude * (2 * np_fmod(gen, frequency, t) - Period(gen))

\* amplitude * sign(sin(2 pi frequency t))
Square(gen, frequency, amplitude, t) ==
    amplitude * np_sign(Sin(gen, frequency, t)) * Period(gen)

\* amplitude * sin(2 pi frequency t)
Sine(gen, frequency, amplitude, t) ==
    amplitude * Sin(gen, frequency, t).fix

\* A mutant of Silent: an unknown type falls back to a sine.
SilentAsSine(gen, frequency, amplitude, t) == Sine(gen, frequency, amplitude, t)

\* np.zeros_like(self.time_points)
Silent(gen, frequency, amplitude, t) == 0

IsType(wave_type, name) == wave_type.kind = "str" /\ wave_type.s = name

\* WaveformGenerator._generate_wave
generate_wave(gen, wave_type, frequency, amplitude) ==
    [i \in DOMAIN gen.time_points |->
        LET t == gen.time_points[i]
        IN  CASE IsType(wave_type, "sine") -> Sine(gen, frequency, amplitude, t)
              [] IsType(wave_type, "square") -> Square(gen, frequency, amplitude, t)
              [] IsType(wave_type, "sawtooth") -> Sawtooth(gen, frequency, amplitude, t)
              [] OTHER -> Silent(gen, frequency, amplitude, t)]

(***************************************************************************)
(* The handlers                                                            *)
(***************************************************************************)
\* A mutant of Emit: broadcast to every connection.
EmitBroadcast(ob, sid, msg) == [c \in DOMAIN ob |-> Append(ob[c], msg)]

\* A mutant of Emit: the message is sent twice.
EmitTwice(ob, sid, msg) == [ob EXCEPT ![sid] = Append(Append(@, msg), msg)]

\* emit(event, payload) inside a handler: to the room of request.sid only.
Emit(ob, sid, msg) == [ob EXCEPT ![sid] = Append(@, msg)]

\* A waveform_data message.  cause is bookkeeping, not payload: the sid and
\* the number of the event whose handler emitted it (0: the connect event).
WaveformData(data, params, sid, seq) ==
    [event |-> "waveform_data", data |-> data, params |-> params,
     cause |-> [sid |-> sid, seq |-> seq]]

\* A mutant of initial_params.
initial_params_other == [type |-> Str("sine"), frequency |-> 10, amplitude |-> 5]

initial_params == [type |-> Str("sine"), frequency |-> 20, amplitude |-> 7]

FreqMin == 1
FreqMax == 200
AmpMin == 0
AmpMax == 10

\* A mutant of ClampFrequency: the upper bound is not applied.
ClampFrequencyNoMax(frequency) == PyMax(FreqMin, frequency)

\* A mutant of ClampFrequency: the same bounds with the arguments of max the
\* other way round, max(min(frequency, 20.0), 0.1).
ClampFrequencySwapped(frequency) == PyMax(PyMin(frequency, FreqMax), FreqMin)

\* max(0.1, min(frequency, 20.0))
ClampFrequency(frequency) == PyMax(FreqMin, PyMin(frequency, FreqMax))

\* max(0.0, min(amplitude, 1.0))
ClampAmplitude(amplitude) == PyMax(AmpMin, PyMin(amplitude, AmpMax))

DefaultType == Str("sine")
DefaultFrequency == Num(10)
DefaultAmplitude == Num(5)

\* handle_update_params with two slips to choose from: the default of an
\* absent frequency taken from elsewhere, and the synthesis fed the values
\* before the clamp.
HandlerVariant(sid, seq, params, default_frequency, unclamped) ==
    LET wave_type == Get(params, "type", DefaultType)
        f == Float(Get(params, "frequency", default_frequency))
        a == Float(Get(params, "amplitude", DefaultAmplitude))
    IN  IF ~f.ok \/ ~a.ok
        THEN [raised |-> TRUE, emits |-> <<>>, prints |-> <<>>]
        ELSE LET frequency == ClampFrequency(f.v)
                 amplitude == ClampAmplitude(a.v)
                 generator == WaveformGenerator(DefaultSampleRate, DefaultDuration)
                 waveform_data ==
                     IF unclamped THEN generate_wave(generator, wave_type, f.v, a.v)
                     ELSE generate_wave(generator, wave_type, frequency, amplitude)
                 echoed == [type |-> wave_type, frequency |-> frequency,
                            amplitude |-> amplitude]
             IN  [raised |-> FALSE,
                  emits  |-> <<WaveformData(waveform_data, echoed, sid, seq)>>,
                  prints |-> <<[line |-> "received", params |-> echoed]>>]

\* A mutant of handle_update_params: the waveform is synthesized from the
\* requested values, the echo carries the clamped ones.
handle_update_params_unclamped(sid, seq, params) ==
    HandlerVariant(sid, seq, params, DefaultFrequency, TRUE)

\* A mutant of handle_update_params: state that survives a request, the
\* default frequency grows with the number of events the connection sent.
handle_update_params_counting(sid, seq, params) ==
    HandlerVariant(sid, seq, params, Num(10 * seq), FALSE)

\* The body of handle_update_params for the event number seq of connection
\* sid: whether it raised, and the messages it emitted and lines it printed.
handle_update_params(sid, seq, params) ==
    LET wave_type == Get(params, "type", DefaultType)
        f == Float(Get(params, "frequency", DefaultFrequency))
        a == Float(Get(params, "amplitude", DefaultAmplitude))
    IN  IF ~f.ok \/ ~a.ok
        THEN [raised |-> TRUE, emits |-> <<>>, prints |-> <<>>]
        ELSE LET frequency == ClampFrequency(f.v)
                 amplitude == ClampAmplitude(a.v)
                 generator == WaveformGenerator(DefaultSampleRate, DefaultDuration)
                 waveform_data == generate_wave(generator, wave_type, frequency, amplitude)
                 echoed == [type |-> wave_type, frequency |-> frequency,
                            amplitude |-> amplitude]
             IN  [raised |-> FALSE,
                  emits  |-> <<WaveformData(waveform_data, echoed, sid, seq)>>,
                  prints |-> <<[line |-> "received", params |-> echoed]>>]

NoParams == [type |-> Str(""), frequency |-> 0, amplitude |-> 0]

\* The connect event of c: test_connect.
Connect(c) ==
    /\ state[c] = "idle"
    /\ LET generator == WaveformGenerator(DefaultSampleRate, DefaultDuration)
           waveform_data == generate_wave(generator, initial_params.type,
                                initial_params.frequency, initial_params.amplitude)
       IN  outbox' = Emit(outbox, c, WaveformData(waveform_data, initial_params, c, 0))
    /\ stdout' = [stdout EXCEPT ![c] = Append(@, [line |-> "connected", params |-> NoParams])]
    /\ state' = [state EXCEPT ![c] = "open"]
    /\ UNCHANGED <<inbox, done, sent, ulp>>

\* A mutant of Disconnect: the handler emits a last waveform.
DisconnectEmits(c) ==
    /\ state[c] = "open"
    /\ outbox' = Emit(outbox, c, WaveformData(
                     generate_wave(WaveformGenerator(DefaultSampleRate, DefaultDuration),
                         initial_params.type, initial_params.frequency,
                         initial_params.amplitude), initial_params, c, 0))
    /\ stdout' = [stdout EXCEPT ![c] = Append(@, [line |-> "disconnected", params |-> NoParams])]
    /\ state' = [state EXCEPT ![c] = "closed"]
    /\ inbox' = [inbox EXCEPT ![c] = <<>>]
    /\ UNCHANGED <<done, sent, ulp>>

\* The disconnect event of c: test_disconnect prints; the transport drops
\* what the connection still had in flight.
Disconnect(c) ==
    /\ state[c] = "open"
    /\ stdout' = [stdout EXCEPT ![c] = Append(@, [line |-> "disconnected", params |-> NoParams])]
    /\ state' = [state EXCEPT ![c] = "closed"]
    /\ inbox' = [inbox EXCEPT ![c] = <<>>]
    /\ UNCHANGED <<outbox, done, sent, ulp>>

RECURSIVE SumOver(_, _)
SumOver(f, S) ==
    IF S = {} THEN 0
    ELSE LET c == CHOOSE x \in S : TRUE IN f[c] + SumOver(f, S \ {c})

\* Client c sends update_params with payload p on its open connection.
Send(c, p) ==
    /\ state[c] = "open"
    /\ SumOver(sent, Conns) < MaxSent
    /\ sent' = [sent EXCEPT ![c] = @ + 1]
    /\ inbox' = [inbox EXCEPT ![c] = Append(@, [seq |-> sent[c] + 1, params |-> p])]
    /\ UNCHANGED <<state, outbox, stdout, done, ulp>>

RECURSIVE EmitAll(_, _, _)
EmitAll(ob, sid, msgs) ==
    IF msgs = <<>> THEN ob
    ELSE EmitAll(Emit(ob, sid, Head(msgs)), sid, Tail(msgs))

\* The oldest update_params event of c is handled: handle_update_params.
HandleUpdate(c) ==
    /\ state[c] = "open"
    /\ inbox[c] # <<>>
    /\ LET ev == Head(inbox[c])
           r == handle_update_params(c, ev.seq, ev.params)
       IN  /\ outbox' = EmitAll(outbox, c, r.emits)
           /\ stdout' = [stdout EXCEPT ![c] = @ \o r.prints]
           /\ done' = [done EXCEPT ![c] = Append(@, [seq |-> ev.seq, params |-> ev.params,
                                                     raised |-> r.raised])]
    /\ inbox' = [inbox EXCEPT ![c] = Tail(@)]
    /\ UNCHANGED <<state, sent, ulp>>

(***************************************************************************)
(* Payloads                                                                *)
(***************************************************************************)
\* A payload: the three keys the handler reads, and one it does not.
Payload(t, f, a) == [type |-> t, frequency |-> f, amplitude |-> a, sample_rate |-> Absent]

EmptyPayload == Payload(Absent, Absent, Absent)
SawPayload == Payload(Str("sawtooth"), Num(1000), Num(20))
BadPayload == Payload(Str("sine"), Str("abc"), Num(5))
GlitchPayload == Payload(Str("glitch"), Num(50), Num(5))

ExtraPayload == [Payload(Str("square"), Num(20), Num(7)) EXCEPT !.sample_rate = Num(20000)]

Payloads == {EmptyPayload, SawPayload, BadPayload, GlitchPayload}

Types == {Absent, Str("sine"), Str("square"), Str("sawtooth"), Str("glitch")}
Frequencies == {Absent, Null, Num(0), Num(1), Num(20), Num(200), Num(250), Num(1000),
                Str("2.0"), Str("abc"), Str("nan"), Str("inf"), Str("-inf")}
Amplitudes == {Absent, Num(-2), Num(0), Num(7), Num(10), Num(15), Num(20),
               Str("abc"), Str("nan"), Str("inf"), Str("-inf")}

AllPayloads == {Payload(t, f, a) : t \in Types, f \in Frequencies, a \in Amplitudes}
                   \cup Payloads \cup {ExtraPayload}

Roundings == {"below", "above"}

(***************************************************************************)
(* Specifications                                                          *)
(***************************************************************************)
Init ==
    /\ state = [c \in Conns |-> "idle"]
    /\ inbox = [c \in Conns |-> <<>>]
    /\ outbox = [c \in Conns |-> <<>>]
    /\ stdout = [c \in Conns |-> <<>>]
    /\ done = [c \in Conns |-> <<>>]
    /\ sent = [c \in Conns |-> 0]
    /\ ulp \in Roundings

Next ==
    \E c \in Conns :
        \/ Connect(c)
        \/ Disconnect(c)
        \/ \E p \in Payloads : Send(c, p)
        \/ HandleUpdate(c)

Spec == Init /\ [][Next]_vars

\* One update_params event of any payload, in flight on a connection that
\* has just been opened.
HandlerInit ==
    /\ ulp \in Roundings
    /\ \E p \in AllPayloads :
        /\ state = [c \in Conns |-> IF c = "A" THEN "open" ELSE "idle"]
        /\ inbox = [c \in Conns |-> IF c = "A" THEN <<[seq |-> 1, params |-> p]>> ELSE <<>>]
        /\ outbox = Emit([c \in Conns |-> <<>>], "A",
                        WaveformData(generate_wave(
                            WaveformGenerator(DefaultSampleRate, DefaultDuration),
                            initial_params.type, initial_params.frequency,
                            initial_params.amplitude), initial_params, "A", 0))
        /\ stdout = [c \in Conns |-> IF c = "A"
                        THEN <<[line |-> "connected", params |-> NoParams]>> ELSE <<>>]
        /\ done = [c \in Conns |-> <<>>]
        /\ sent = [c \in Conns |-> IF c = "A" THEN 1 ELSE 0]

HandlerNext ==
    \E c \in Conns :
        \/ HandleUpdate(c)
        \/ Disconnect(c)

HandlerSpec == HandlerInit /\ [][HandlerNext]_vars

(***************************************************************************)
(* What the claims speak about                                             *)
(***************************************************************************)
\* The messages delivered to connection c that the event number n of
\* connection sid caused, as positions in outbox[c].
RepliesAt(c, sid, n) ==
    {k \in DOMAIN outbox[c] : outbox[c][k].cause = [sid |-> sid, seq |-> n]}

\* The handled update_params events of c, as positions in done[c].
Handled(c) == DOMAIN done[c]

\* A field given as a JSON number.
IsNum(x) == x.kind = "num"

\* The handled events of c that were answered, each with its reply.
Answered(c) ==
    {<<i, k>> \in Handled(c) \X DOMAIN outbox[c] :
        outbox[c][k].cause = [sid |-> c, seq |-> done[c][i].seq]}

\* Clamping into [lo, hi] as the specification words it.
Clamped(x, lo, hi) == IF x < lo THEN lo ELSE IF x > hi THEN hi ELSE x

\* C1: with A and B both able to be open, every waveform_data message is
\* delivered to the connection whose event caused it and to no other, and
\* every update_params event that was processed has its reply there.
C1_TargetedReply ==
    \A c \in Conns :
        /\ \A k \in DOMAIN outbox[c] : outbox[c][k].cause.sid = c
        /\ \A i \in Handled(c) :
              /\ ~done[c][i].raised => RepliesAt(c, c, done[c][i].seq) # {}
              /\ \A b \in Conns \ {c} : RepliesAt(b, c, done[c][i].seq) = {}

C1_Witness ==
    /\ state["A"] = "open" /\ state["B"] = "open"
    /\ \E i \in Handled("A") : RepliesAt("A", "A", done["A"][i].seq) # {}
    /\ Len(outbox["B"]) = 1

\* C2: the first message delivered to a connection is the default waveform,
\* {sine, 2.0, 0.7} with 1000 samples, whatever is sent afterwards.
C2_DefaultConnect ==
    \A c \in Conns :
        /\ state[c] # "idle" => outbox[c] # <<>>
        /\ outbox[c] # <<>> =>
              /\ outbox[c][1].params = [type |-> Str("sine"), frequency |-> 20, amplitude |-> 7]
              /\ Len(outbox[c][1].data) = 1000
              /\ outbox[c][1].cause.seq = 0

C2_Witness ==
    \E c \in Conns :
        /\ Len(outbox[c]) >= 2
        /\ outbox[c][2].params # outbox[c][1].params
        /\ outbox[c][1].params.frequency = 20

\* C3: an update_params event whose frequency and amplitude are numbers is
\* answered, and the echoed frequency and amplitude are the given ones
\* clamped into [0.1, 20.0] and [0.0, 1.0]: in range, unchanged when already
\* in range, the nearest bound otherwise.
C3_Clamp ==
    \A c \in Conns : \A i \in Handled(c) :
        LET p == done[c][i].params IN
        (IsNum(p.frequency) /\ IsNum(p.amplitude)) =>
            /\ ~done[c][i].raised
            /\ \E k \in DOMAIN outbox[c] : <<i, k>> \in Answered(c)
            /\ \A k \in DOMAIN outbox[c] : <<i, k>> \in Answered(c) =>
                  LET e == outbox[c][k].params IN
                  /\ e.frequency = Clamped(p.frequency.n, 1, 200)
                  /\ e.amplitude = Clamped(p.amplitude.n, 0, 10)
                  /\ 1 <= e.frequency /\ e.frequency <= 200
                  /\ 0 <= e.amplitude /\ e.amplitude <= 10
                  /\ (p.frequency.n = 250 => e.frequency = 200)
                  /\ (p.frequency.n = 0 => e.frequency = 1)
                  /\ (p.amplitude.n = 15 => e.amplitude = 10)
                  /\ (p.amplitude.n = -2 => e.amplitude = 0)

C3_Witness ==
    \E c \in Conns : \E a \in Answered(c) :
        /\ done[c][a[1]].params.frequency = Num(250)
        /\ done[c][a[1]].params.amplitude = Num(-2)
        /\ outbox[c][a[2]].params.frequency = 200
        /\ outbox[c][a[2]].params.amplitude = 0

\* The numbers of the events that caused the messages of outbox[c], in order.
Causes(c) == [k \in DOMAIN outbox[c] |-> outbox[c][k].cause.seq]

\* The numbers of the handled events of c that did not raise, in the order
\* they were handled.
RECURSIVE Processed(_)
Processed(h) ==
    IF h = <<>> THEN <<>>
    ELSE (IF Head(h).raised THEN <<>> ELSE <<Head(h).seq>>) \o Processed(Tail(h))

Uncoercible(x) == x.kind = "null" \/ x = Str("abc")

Malformed(p) == Uncoercible(p.frequency) \/ Uncoercible(p.amplitude)

C5_Contained ==
    \A c \in Conns : \A i \in Handled(c) :
        IF Malformed(done[c][i].params)
        THEN \A b \in Conns : RepliesAt(b, c, done[c][i].seq) = {}
        ELSE Cardinality(RepliesAt(c, c, done[c][i].seq)) = 1

C5_StaysOpen ==
    \A c \in Conns :
        (done'[c] # done[c] /\ Malformed(done'[c][Len(done'[c])].params)) =>
            /\ state[c] = "open" /\ state' = state
            /\ outbox' = outbox
            /\ inbox'[c] = Tail(inbox[c])

\* C5: an update_params event whose frequency or amplitude cannot be
\* converted to a number is answered by no message on any connection and
\* leaves every connection as it was, its own still open; every well-formed
\* event, before or after it, on any connection, has exactly one reply.
C5_CoercionFailure == [](C5_Contained) /\ [][C5_StaysOpen]_vars

C5_Witness ==
    \E c \in Conns : \E b \in Conns \ {c} :
        /\ Len(done[c]) = 2
        /\ Malformed(done[c][1].params) /\ ~Malformed(done[c][2].params)
        /\ Causes(c) = <<0, 2>>
        /\ state[c] = "open" /\ state[b] = "open"

\* C6: an absent type, frequency or amplitude is answered as "sine", 1.0 or
\* 0.5; a field that is present is echoed as given (a number in range) and
\* never as its default; the empty payload is answered {sine, 1.0, 0.5}.
C6_Defaults ==
    \A c \in Conns : \A i \in Handled(c) :
        LET p == done[c][i].params IN
        /\ p = EmptyPayload => ~done[c][i].raised
        /\ ~done[c][i].raised => \E k \in DOMAIN outbox[c] : <<i, k>> \in Answered(c)
        /\ \A k \in DOMAIN outbox[c] : <<i, k>> \in Answered(c) =>
              LET e == outbox[c][k].params IN
              /\ e.type = (IF p.type.kind = "absent" THEN Str("sine") ELSE p.type)
              /\ p.frequency.kind = "absent" => e.frequency = 10
              /\ p.amplitude.kind = "absent" => e.amplitude = 5
              /\ (IsNum(p.frequency) /\ p.frequency.n \in 1..200) => e.frequency = p.frequency.n
              /\ (IsNum(p.amplitude) /\ p.amplitude.n \in 0..10) => e.amplitude = p.amplitude.n
              /\ p = EmptyPayload =>
                    e = [type |-> Str("sine"), frequency |-> 10, amplitude |-> 5]

C6_Witness ==
    \E c \in Conns : \E a \in Answered(c) :
        /\ done[c][a[1]].params = EmptyPayload
        /\ outbox[c][a[2]].params = [type |-> Str("sine"), frequency |-> 10, amplitude |-> 5]

KnownTypes == {Str("sine"), Str("square"), Str("sawtooth")}

\* A payload with a type that is present and is none of the three shapes,
\* and with frequency and amplitude given as numbers.
UnknownShape(p) ==
    /\ p.type.kind = "str" /\ p.type \notin KnownTypes
    /\ IsNum(p.frequency) /\ IsNum(p.amplitude)

\* C7: an update_params event with an unrecognized type is answered: 1000
\* samples all 0, the type echoed unchanged, frequency and amplitude clamped.
C7_UnknownType ==
    \A c \in Conns : \A i \in Handled(c) :
        LET p == done[c][i].params IN
        UnknownShape(p) =>
            /\ ~done[c][i].raised
            /\ \E k \in DOMAIN outbox[c] : <<i, k>> \in Answered(c)
            /\ \A k \in DOMAIN outbox[c] : <<i, k>> \in Answered(c) =>
                  LET m == outbox[c][k] IN
                  /\ Len(m.data) = 1000
                  /\ \A j \in DOMAIN m.data : m.data[j] = 0
                  /\ m.params.type = p.type
                  /\ m.params.frequency = Clamped(p.frequency.n, 1, 200)
                  /\ m.params.amplitude = Clamped(p.amplitude.n, 0, 10)

C7_Witness ==
    \E c \in Conns : \E a \in Answered(c) :
        /\ done[c][a[1]].params = GlitchPayload
        /\ outbox[c][a[2]].params = [type |-> Str("glitch"), frequency |-> 50, amplitude |-> 5]
        /\ outbox[c][a[2]].data = [j \in 1..1000 |-> 0]

\* C8: every waveform_data message carries exactly 1000 samples, the
\* sample count of the default configuration, whatever the payload holds.
C8_SampleCount ==
    \A c \in Conns : \A k \in DOMAIN outbox[c] :
        /\ Len(outbox[c][k].data) = 1000
        /\ DOMAIN outbox[c][k].data = 1..(DefaultSampleRate * DefaultDuration)

C8_Witness ==
    \E c \in Conns : \E a \in Answered(c) :
        /\ done[c][a[1]].params.sample_rate # Absent
        /\ Len(outbox[c][a[2]].data) = 1000
        /\ Len(outbox[c][1].data) = 1000

\* The messages with a sawtooth, and with a square.
SawtoothMsgs == {m \in UNION {{outbox[c][k] : k \in DOMAIN outbox[c]} : c \in Conns} :
                    m.params.type = Str("sawtooth")}

SquareMsgs == {m \in UNION {{outbox[c][k] : k \in DOMAIN outbox[c]} : c \in Conns} :
                    m.params.type = Str("square")}

\* amplitude * 1.0 on the grid of the samples.
Full(amplitude) == amplitude * 10000

\* C9 as stated: every sawtooth sample lies in [-amplitude, amplitude),
\* amplitude 0.0 included.
C9_Original ==
    \A m \in SawtoothMsgs : \A j \in DOMAIN m.data :
        /\ 0 - Full(m.params.amplitude) <= m.data[j]
        /\ m.data[j] < Full(m.params.amplitude)

\* C9 amended: sample i of a sawtooth is amplitude * (2 * frac(frequency *
\* i / 1000) - 1); it lies in [-amplitude, amplitude) when amplitude > 0 and
\* is 0 when amplitude is 0.
C9_SawtoothRange ==
    \A m \in SawtoothMsgs : \A j \in DOMAIN m.data :
        LET a == m.params.amplitude
            f == m.params.frequency
        IN  /\ 1 <= f /\ f <= 200 /\ 0 <= a /\ a <= 10
            /\ m.data[j] = a * (2 * ((f * (j - 1)) % 10000) - 10000)
            /\ 0 - Full(a) <= m.data[j] /\ m.data[j] <= Full(a)
            /\ a > 0 => m.data[j] < Full(a)
            /\ a = 0 => m.data[j] = 0

C9_Witness ==
    \E m \in SawtoothMsgs :
        /\ m.params.amplitude = 10 /\ m.params.frequency = 200
        /\ m.data[1] = 0 - Full(10) /\ m.data[50] = Full(10) - 4000
        /\ m.data[51] = 0 - Full(10)

\* The case C9 as stated leaves out: a sawtooth of amplitude 0.0.
C9_ZeroAmplitude ==
    \E m \in SawtoothMsgs : m.params.amplitude = 0 /\ m.data[2] = 0

\* C10 as stated: every square sample is -amplitude, 0 or amplitude, and it
\* is 0 exactly where sin(2 pi frequency t) is zero, that is where
\* 2 * frequency * t is a whole number.
C10_Original ==
    \A m \in SquareMsgs : \A j \in DOMAIN m.data :
        /\ m.data[j] \in {0 - Full(m.params.amplitude), 0, Full(m.params.amplitude)}
        /\ m.data[j] = 0 <=> (m.params.frequency * (j - 1)) % 5000 = 0

\* C10 amended: every square sample is -amplitude, 0 or amplitude; with
\* amplitude 0 every sample is 0, and with amplitude > 0 the only 0 is the
\* sample at t = 0: at the later zero crossings the computed sine is not 0
\* and the sample is amplitude or -amplitude.
C10_SquareValues ==
    \A m \in SquareMsgs : \A j \in DOMAIN m.data :
        LET a == m.params.amplitude IN
        /\ m.data[j] \in {0 - Full(a), 0, Full(a)}
        /\ m.data[j] = 0 <=> (a = 0 \/ j = 1)

C10_Witness ==
    \E m \in SquareMsgs :
        /\ m.params.amplitude = 7 /\ m.params.frequency = 20
        /\ m.data[1] = 0 /\ m.data[2] = Full(7) /\ m.data[252] = 0 - Full(7)
        /\ m.data[251] \in {Full(7), 0 - Full(7)}

\* The case C10 as stated leaves out: a square of amplitude 0.0.
C10_ZeroAmplitude ==
    \E m \in SquareMsgs : m.params.amplitude = 0 /\ m.data[2] = 0

\* Nothing of a closed connection moves: it stays closed, no event of it is
\* handled, no message is delivered to it.
C11_ClosedStep ==
    \A c \in Conns :
        /\ state[c] = "closed" =>
              /\ state'[c] = "closed"
              /\ outbox'[c] = outbox[c]
              /\ done'[c] = done[c]
              /\ inbox'[c] = <<>>
        /\ state'[c] # state[c] =>
              <<state[c], state'[c]>> \in {<<"idle", "open">>, <<"open", "closed">>}

\* C11: a connection goes from Open to Closed and Closed is terminal: after
\* its disconnect event no update_params event of it is handled, no
\* waveform_data message is delivered to it, and it is never Open again.
C11_ClosedTerminal ==
    [](\A c \in Conns : state[c] = "closed" => inbox[c] = <<>>) /\ [][C11_ClosedStep]_vars

C11_Witness ==
    /\ state["A"] = "closed"
    /\ sent["A"] > Len(done["A"])
    /\ Len(outbox["A"]) = 1
    /\ state["B"] = "open" /\ Len(outbox["B"]) = 2

\* The messages of c that answer an update_params event.
UpdateReplies(c) == {k \in DOMAIN outbox[c] : outbox[c][k].cause.seq >= 1}

\* C12: the data of a reply to update_params is the waveform of the echoed,
\* clamped params on the default time axis; {sawtooth, 100, 2} is answered
\* with params {sawtooth, 20.0, 1.0} and the 1000 samples
\* 1.0 * (2 * frac(20.0 * i / 1000) - 1).
C12_DataFromEchoedParams ==
    \A c \in Conns :
        /\ \A k \in UpdateReplies(c) :
              LET m == outbox[c][k] IN
              m.data = generate_wave(WaveformGenerator(1000, 1), m.params.type,
                                     m.params.frequency, m.params.amplitude)
        /\ \A a \in Answered(c) :
              done[c][a[1]].params = SawPayload =>
                  /\ outbox[c][a[2]].params =
                         [type |-> Str("sawtooth"), frequency |-> 200, amplitude |-> 10]
                  /\ outbox[c][a[2]].data =
                         [j \in 1..1000 |-> 10 * (2 * ((200 * (j - 1)) % 10000) - 10000)]

C12_Witness ==
    \E c \in Conns : \E a \in Answered(c) :
        /\ done[c][a[1]].params.frequency = Num(1000)
        /\ done[c][a[1]].params.amplitude = Num(20)
        /\ outbox[c][a[2]].params.frequency = 200
        /\ outbox[c][a[2]].data[2] = 10 * (2 * 200 - 10000)

\* What connection c was sent in answer to its handled event i: the data
\* and params of each reply.
ReplyContent(c, i) ==
    {[data |-> outbox[c][k].data, params |-> outbox[c][k].params] :
        k \in RepliesAt(c, c, done[c][i].seq)}

\* C13: two update_params events with the same payload get the same answer,
\* data and params (or both none), whichever connections they came on and
\* whatever was handled before or between them.
C13_Deterministic ==
    \A c1 \in Conns : \A c2 \in Conns :
        \A i1 \in Handled(c1) : \A i2 \in Handled(c2) :
            done[c1][i1].params = done[c2][i2].params =>
                /\ done[c1][i1].raised = done[c2][i2].raised
                /\ ReplyContent(c1, i1) = ReplyContent(c2, i2)

C13_Witness ==
    \E c \in Conns : \E b \in Conns \ {c} :
        /\ Len(done[c]) = 2
        /\ done[c][1].params = EmptyPayload /\ done[c][2].params = EmptyPayload
        /\ Len(outbox[c]) = 3
        /\ outbox[c][2].data = outbox[c][3].data
        /\ outbox[c][2].params = outbox[c][3].params
        /\ state[b] = "closed"

\* A step in which connection c is disconnected changes nothing but c's own
\* record: one printed line, and no message to anyone.
C14_DisconnectStep ==
    \A c \in Conns :
        (state[c] = "open" /\ state'[c] = "closed") =>
            /\ outbox' = outbox
            /\ done' = done
            /\ stdout'[c] = Append(stdout[c], [line |-> "disconnected", params |-> NoParams])
            /\ \A b \in Conns \ {c} :
                  /\ state'[b] = state[b]
                  /\ inbox'[b] = inbox[b]
                  /\ stdout'[b] = stdout[b]

\* Whatever is closed, every well-formed event that was handled on a
\* connection has its one reply there.
C14_OthersServed ==
    \A b \in Conns : \A i \in Handled(b) :
        ~Malformed(done[b][i].params) =>
            Cardinality(RepliesAt(b, b, done[b][i].seq)) = 1

\* C14: the disconnect event of a connection only records the termination:
\* it sends no waveform_data to any connection and leaves every other
\* connection as it was, still answered for its update_params events.
C14_DisconnectFrame == [](C14_OthersServed) /\ [][C14_DisconnectStep]_vars

C14_Witness ==
    \E c \in Conns : \E b \in Conns \ {c} :
        /\ state[c] = "closed"
        /\ stdout[c][Len(stdout[c])].line = "disconnected"
        /\ sent[c] = 0
        /\ state[b] = "open"
        /\ Causes(b) = <<0, 1, 2>>

NonFinite == {Str("nan"), Str("inf"), Str("-inf")}

\* C15: a frequency or amplitude that converts to nan, inf or -inf is
\* clamped like any other: the event is answered, the echoed frequency is in
\* [0.1, 20.0] and the echoed amplitude in [0.0, 1.0] (inf gives the upper
\* bound, -inf and nan the lower), and every sample is finite, within
\* [-1.0, 1.0].
C15_NonFiniteClamped ==
    \A c \in Conns : \A i \in Handled(c) :
        LET p == done[c][i].params IN
        ((p.frequency \in NonFinite \/ p.amplitude \in NonFinite) /\ ~Malformed(p)) =>
            /\ ~done[c][i].raised
            /\ \E k \in DOMAIN outbox[c] : <<i, k>> \in Answered(c)
            /\ \A k \in DOMAIN outbox[c] : <<i, k>> \in Answered(c) =>
                  LET m == outbox[c][k] IN
                  /\ m.params.frequency \in 1..200
                  /\ m.params.amplitude \in 0..10
                  /\ p.frequency = Str("inf") => m.params.frequency = 200
                  /\ p.frequency \in {Str("nan"), Str("-inf")} => m.params.frequency = 1
                  /\ p.amplitude = Str("inf") => m.params.amplitude = 10
                  /\ p.amplitude \in {Str("nan"), Str("-inf")} => m.params.amplitude = 0
                  /\ \A j \in DOMAIN m.data :
                        0 - Full(10) <= m.data[j] /\ m.data[j] <= Full(10)

C15_Witness ==
    \E c \in Conns : \E a \in Answered(c) :
        /\ done[c][a[1]].params.frequency = Str("nan")
        /\ done[c][a[1]].params.amplitude = Str("inf")
        /\ done[c][a[1]].params.type = Str("sine")
        /\ outbox[c][a[2]].params.frequency = 1
        /\ outbox[c][a[2]].params.amplitude = 10

====
